---- MODULE Spec2Model ----
(***************************************************************************)
(* Model of puertocho-assistant-view/main.cpp: the bootstrap of the        *)
(* PuertoCho Assistant dashboard.  main() is a straight line of statements *)
(* (lines 10-38); the only handler is the lambda connected to              *)
(* QQmlApplicationEngine::objectCreated (lines 30-34).  The toolkit is     *)
(* modelled by its documented contract: a queued connection posts the slot *)
(* call to the receiver's event queue, a direct one runs it inside the     *)
(* emitting call, QCoreApplication::exit(code) makes a running event loop  *)
(* return code and does nothing when no loop runs.                         *)
(***************************************************************************)
EXTENDS Integers, Sequences, FiniteSets

\* Number of objectCreated notifications for other documents the engine may deliver.
MaxEmits == 2

\* main.cpp:29  const QUrl url(QStringLiteral("qrc:/main.qml"))
url == "qrc:/main.qml"

\* Paths other than the requested one that a notification may report.
OtherUrls == {"qrc:/other.qml", "qrc:/Main.qml"}

\* A QObject* is either null or points at an instantiated document.
NULL == "null"
Handles == {NULL, "object"}

\* main.cpp:33  QCoreApplication::exit(-1)
RootLoadFailureCode == -1

\* Codes with which the toolkit itself ends the loop (0 = clean shutdown).
ToolkitCodes == {0, 1}

\* main.cpp:10-11  the two attributes given to QCoreApplication::setAttribute
AA_EnableHighDpiScaling == "AA_EnableHighDpiScaling"
AA_UseHighDpiPixmaps == "AA_UseHighDpiPixmaps"
Attributes == {AA_EnableHighDpiScaling, AA_UseHighDpiPixmaps}

\* main.cpp:16-19  the identity strings
AppName == "PuertoCho Assistant Dashboard"
AppVersion == "1.0.0"
OrgName == "PuertoCho"
OrgDomain == "puertocho.local"

\* A QString nobody has set.
Unset == ""

CtxNames == {"applicationVersion", "applicationName"}

\* Every piece of process-wide startup state main() writes.
Fields == Attributes \cup CtxNames \cup
          {"name", "version", "organization", "organizationDomain"}

VARIABLES
  pc,                 \* index in Order of the statement main() executes next
  attributes,         \* application attributes set so far
  appConstructed,     \* QGuiApplication app exists
  applicationName, applicationVersion, organizationName, organizationDomain,
  engineConstructed,  \* QQmlApplicationEngine engine exists
  contextObtained,    \* context = engine.rootContext() was taken
  contextProperties,  \* the root context's properties, by name
  connected,          \* the lambda is connected to objectCreated
  loadCount,          \* number of engine.load calls
  rootState,          \* "idle", "pending" or "done": instantiation of url
  eventQueue,         \* slot calls posted to app's event queue (and where from)
  otherEmits,         \* notifications for other documents emitted so far
  loopRunning,        \* app.exec() is running the event loop
  exitBy,             \* who asked the loop to exit: "none", "observer", "toolkit"
  returnCode,         \* the code handed to exit()
  exitCode,           \* what main() returned (meaningful once returned)
  slotLog,            \* every run of the lambda: arguments, where emitted (from),
                      \* where run (at), whether it called exit(-1)
  writes              \* how many times each field was written

vars == <<pc, attributes, appConstructed, applicationName, applicationVersion,
          organizationName, organizationDomain, engineConstructed,
          contextObtained, contextProperties, connected, loadCount, rootState,
          eventQueue, otherEmits, loopRunning, exitBy, returnCode, exitCode,
          slotLog, writes>>

identityVars == <<applicationName, applicationVersion, organizationName,
                  organizationDomain>>
engineVars == <<rootState, eventQueue, otherEmits, slotLog>>
loopVars == <<loopRunning, exitBy, returnCode, exitCode>>

----------------------------------------------------------------------------
(* The statements of main() in program order. *)

Order_LoadBeforeConnect ==
  <<"attr1", "attr2", "app", "name", "version", "organization",
    "organizationDomain", "engine", "rootContext", "ctxVersion", "ctxName",
    "load", "connect", "exec">>

Order_LoadBeforeContext ==
  <<"attr1", "attr2", "app", "name", "version", "organization",
    "organizationDomain", "engine", "rootContext", "connect", "load",
    "ctxVersion", "ctxName", "exec">>

Order_AppBeforeAttributes ==
  <<"app", "attr1", "attr2", "name", "version", "organization",
    "organizationDomain", "engine", "rootContext", "ctxVersion", "ctxName",
    "connect", "load", "exec">>

Order ==
  <<"attr1", "attr2", "app", "name", "version", "organization",
    "organizationDomain", "engine", "rootContext", "ctxVersion", "ctxName",
    "connect", "load", "exec">>

Stmt == IF pc <= Len(Order) THEN Order[pc] ELSE "return"

\* Where control is: inside the event loop, or at a statement of main().
Where == IF loopRunning THEN "loop" ELSE Stmt

Wrote(f) == writes' = [writes EXCEPT ![f] = @ + 1]

----------------------------------------------------------------------------
(* The connection and the lambda. *)

ConnectionType_Auto == "AutoConnection"

\* main.cpp:34  the fifth argument of connect
ConnectionType == "QueuedConnection"

\* Sender and receiver live in the one thread, so anything but a queued
\* connection delivers directly.
Queued == ConnectionType = "QueuedConnection"

ObserverExits_NoNegation(obj, objUrl) == obj # NULL /\ url = objUrl

ObserverExits_NoUrlCheck(obj, objUrl) == obj = NULL

ObserverExits_UrlInverted(obj, objUrl) == obj = NULL /\ url # objUrl

\* main.cpp:32  if (!obj && url == objUrl)
ObserverExits(obj, objUrl) == obj = NULL /\ url = objUrl

\* One run of the lambda (main.cpp:31-34).  exit() acts only on a running loop.
InvokeSlot(obj, objUrl, from) ==
  /\ slotLog' = Append(slotLog, [obj |-> obj, url |-> objUrl, from |-> from,
                                 at |-> Where,
                                 exit |-> ObserverExits(obj, objUrl)])
  /\ IF ObserverExits(obj, objUrl) /\ loopRunning
       THEN exitBy' = "observer" /\ returnCode' = RootLoadFailureCode
       ELSE UNCHANGED <<exitBy, returnCode>>

\* The engine emits objectCreated(obj, objUrl).
Emit(obj, objUrl) ==
  IF ~connected
    THEN UNCHANGED <<eventQueue, slotLog, exitBy, returnCode>>
    ELSE IF Queued
      THEN /\ eventQueue' = Append(eventQueue,
                                   [obj |-> obj, url |-> objUrl, from |-> Where])
           /\ UNCHANGED <<slotLog, exitBy, returnCode>>
      ELSE /\ InvokeSlot(obj, objUrl, Where)
           /\ UNCHANGED eventQueue

----------------------------------------------------------------------------
Init ==
  /\ pc = 1
  /\ attributes = {}
  /\ appConstructed = FALSE
  /\ applicationName = Unset
  /\ applicationVersion = Unset
  /\ organizationName = Unset
  /\ organizationDomain = Unset
  /\ engineConstructed = FALSE
  /\ contextObtained = FALSE
  /\ contextProperties = [n \in CtxNames |-> Unset]
  /\ connected = FALSE
  /\ loadCount = 0
  /\ rootState = "idle"
  /\ eventQueue = <<>>
  /\ otherEmits = 0
  /\ loopRunning = FALSE
  /\ exitBy = "none"
  /\ returnCode = 0
  /\ exitCode = 0
  /\ slotLog = <<>>
  /\ writes = [f \in Fields |-> 0]

(* main.cpp:10 *)
SetAttributeScaling ==
  /\ Stmt = "attr1"
  /\ attributes' = attributes \cup {AA_EnableHighDpiScaling}
  /\ Wrote(AA_EnableHighDpiScaling)
  /\ pc' = pc + 1
  /\ UNCHANGED <<appConstructed, identityVars, engineConstructed,
                 contextObtained, contextProperties, connected, loadCount,
                 engineVars, loopVars>>

(* main.cpp:11 *)
SetAttributePixmaps ==
  /\ Stmt = "attr2"
  /\ attributes' = attributes \cup {AA_UseHighDpiPixmaps}
  /\ Wrote(AA_UseHighDpiPixmaps)
  /\ pc' = pc + 1
  /\ UNCHANGED <<appConstructed, identityVars, engineConstructed,
                 contextObtained, contextProperties, connected, loadCount,
                 engineVars, loopVars>>

(* main.cpp:13 *)
ConstructApp ==
  /\ Stmt = "app"
  /\ appConstructed' = TRUE
  /\ pc' = pc + 1
  /\ UNCHANGED <<attributes, identityVars, engineConstructed, contextObtained,
                 contextProperties, connected, loadCount, engineVars,
                 loopVars, writes>>

(* main.cpp:16 *)
SetApplicationName ==
  /\ Stmt = "name"
  /\ applicationName' = AppName
  /\ Wrote("name")
  /\ pc' = pc + 1
  /\ UNCHANGED <<attributes, appConstructed, applicationVersion,
                 organizationName, organizationDomain, engineConstructed,
                 contextObtained, contextProperties, connected, loadCount,
                 engineVars, loopVars>>

(* main.cpp:17 *)
SetApplicationVersion ==
  /\ Stmt = "version"
  /\ applicationVersion' = AppVersion
  /\ Wrote("version")
  /\ pc' = pc + 1
  /\ UNCHANGED <<attributes, appConstructed, applicationName,
                 organizationName, organizationDomain, engineConstructed,
                 contextObtained, contextProperties, connected, loadCount,
                 engineVars, loopVars>>

SetOrganizationName_AsApplicationName ==
  /\ Stmt = "organization"
  /\ applicationName' = OrgName
  /\ Wrote("name")
  /\ pc' = pc + 1
  /\ UNCHANGED <<attributes, appConstructed, applicationVersion,
                 organizationName, organizationDomain, engineConstructed,
                 contextObtained, contextProperties, connected, loadCount,
                 engineVars, loopVars>>

(* main.cpp:18 *)
SetOrganizationName ==
  /\ Stmt = "organization"
  /\ organizationName' = OrgName
  /\ Wrote("organization")
  /\ pc' = pc + 1
  /\ UNCHANGED <<attributes, appConstructed, applicationName,
                 applicationVersion, organizationDomain, engineConstructed,
                 contextObtained, contextProperties, connected, loadCount,
                 engineVars, loopVars>>

(* main.cpp:19 *)
SetOrganizationDomain ==
  /\ Stmt = "organizationDomain"
  /\ organizationDomain' = OrgDomain
  /\ Wrote("organizationDomain")
  /\ pc' = pc + 1
  /\ UNCHANGED <<attributes, appConstructed, applicationName,
                 applicationVersion, organizationName, engineConstructed,
                 contextObtained, contextProperties, connected, loadCount,
                 engineVars, loopVars>>

(* main.cpp:21 *)
ConstructEngine ==
  /\ Stmt = "engine"
  /\ engineConstructed' = TRUE
  /\ pc' = pc + 1
  /\ UNCHANGED <<attributes, appConstructed, identityVars, contextObtained,
                 contextProperties, connected, loadCount, engineVars,
                 loopVars, writes>>

(* main.cpp:24 *)
RootContext ==
  /\ Stmt = "rootContext"
  /\ contextObtained' = TRUE
  /\ pc' = pc + 1
  /\ UNCHANGED <<attributes, appConstructed, identityVars, engineConstructed,
                 contextProperties, connected, loadCount, engineVars,
                 loopVars, writes>>

ContextValue_Swapped(n) ==
  IF n = "applicationVersion" THEN applicationName ELSE applicationVersion

\* main.cpp:25-26  the value each property is given: read from the app object
ContextValue(n) ==
  IF n = "applicationVersion" THEN applicationVersion ELSE applicationName

(* main.cpp:25 *)
SetContextVersion ==
  /\ Stmt = "ctxVersion"
  /\ contextProperties' = [contextProperties EXCEPT
        !["applicationVersion"] = ContextValue("applicationVersion")]
  /\ Wrote("applicationVersion")
  /\ pc' = pc + 1
  /\ UNCHANGED <<attributes, appConstructed, identityVars, engineConstructed,
                 contextObtained, connected, loadCount, engineVars, loopVars>>

(* main.cpp:26 *)
SetContextName ==
  /\ Stmt = "ctxName"
  /\ contextProperties' = [contextProperties EXCEPT
        !["applicationName"] = ContextValue("applicationName")]
  /\ Wrote("applicationName")
  /\ pc' = pc + 1
  /\ UNCHANGED <<attributes, appConstructed, identityVars, engineConstructed,
                 contextObtained, connected, loadCount, engineVars, loopVars>>

(* main.cpp:29-34 *)
Connect ==
  /\ Stmt = "connect"
  /\ connected' = TRUE
  /\ pc' = pc + 1
  /\ UNCHANGED <<attributes, appConstructed, identityVars, engineConstructed,
                 contextObtained, contextProperties, loadCount, engineVars,
                 loopVars, writes>>

(* main.cpp:36  The engine finishes the document inside the call (emitting  *)
(* objectCreated from within load) or leaves it to a later loop turn.       *)
Load ==
  /\ Stmt = "load"
  /\ loadCount' = loadCount + 1
  /\ pc' = pc + 1
  /\ \E outcome \in Handles \cup {"pending"} :
       IF outcome = "pending"
         THEN /\ rootState' = "pending"
              /\ UNCHANGED <<eventQueue, slotLog, exitBy, returnCode>>
         ELSE /\ rootState' = "done"
              /\ Emit(outcome, url)
  /\ UNCHANGED <<attributes, appConstructed, identityVars, engineConstructed,
                 contextObtained, contextProperties, connected, otherEmits,
                 loopRunning, exitCode, writes>>

ExecEnter_WaitsForDocument ==
  /\ Stmt = "exec"
  /\ ~loopRunning
  /\ rootState = "done"
  /\ loopRunning' = TRUE
  /\ UNCHANGED <<pc, attributes, appConstructed, identityVars,
                 engineConstructed, contextObtained, contextProperties,
                 connected, loadCount, engineVars, exitBy, returnCode,
                 exitCode, writes>>

(* main.cpp:38  app.exec() starts the event loop *)
ExecEnter ==
  /\ Stmt = "exec"
  /\ ~loopRunning
  /\ loopRunning' = TRUE
  /\ UNCHANGED <<pc, attributes, appConstructed, identityVars,
                 engineConstructed, contextObtained, contextProperties,
                 connected, loadCount, engineVars, exitBy, returnCode,
                 exitCode, writes>>

(* A loop turn delivers the oldest posted slot call to the lambda. *)
Dispatch ==
  /\ loopRunning
  /\ exitBy = "none"
  /\ eventQueue # <<>>
  /\ eventQueue' = Tail(eventQueue)
  /\ InvokeSlot(Head(eventQueue).obj, Head(eventQueue).url,
                Head(eventQueue).from)
  /\ UNCHANGED <<pc, attributes, appConstructed, identityVars,
                 engineConstructed, contextObtained, contextProperties,
                 connected, loadCount, rootState, otherEmits, loopRunning,
                 exitCode, writes>>

(* A loop turn in which the engine finishes the pending root document. *)
EngineFinishLoad ==
  /\ loopRunning
  /\ exitBy = "none"
  /\ rootState = "pending"
  /\ rootState' = "done"
  /\ \E obj \in Handles : Emit(obj, url)
  /\ UNCHANGED <<pc, attributes, appConstructed, identityVars,
                 engineConstructed, contextObtained, contextProperties,
                 connected, loadCount, otherEmits, loopRunning, exitCode,
                 writes>>

(* A loop turn in which objectCreated reports some other document. *)
EngineOtherNotification ==
  /\ loopRunning
  /\ exitBy = "none"
  /\ otherEmits < MaxEmits
  /\ otherEmits' = otherEmits + 1
  /\ \E obj \in Handles, u \in OtherUrls : Emit(obj, u)
  /\ UNCHANGED <<pc, attributes, appConstructed, identityVars,
                 engineConstructed, contextObtained, contextProperties,
                 connected, loadCount, rootState, loopRunning, exitCode,
                 writes>>

(* Ordinary shutdown: the toolkit ends the loop (last window closed, ...). *)
ToolkitQuit ==
  /\ loopRunning
  /\ exitBy = "none"
  /\ exitBy' = "toolkit"
  /\ \E c \in ToolkitCodes : returnCode' = c
  /\ UNCHANGED <<pc, attributes, appConstructed, identityVars,
                 engineConstructed, contextObtained, contextProperties,
                 connected, loadCount, engineVars, loopRunning, exitCode,
                 writes>>

(* main.cpp:38  exec() returns the code given to exit(); main returns it *)
ExecReturn ==
  /\ loopRunning
  /\ exitBy # "none"
  /\ loopRunning' = FALSE
  /\ exitCode' = returnCode
  /\ pc' = pc + 1
  /\ UNCHANGED <<attributes, appConstructed, identityVars, engineConstructed,
                 contextObtained, contextProperties, connected, loadCount,
                 engineVars, exitBy, returnCode, writes>>

Next ==
  \/ SetAttributeScaling
  \/ SetAttributePixmaps
  \/ ConstructApp
  \/ SetApplicationName
  \/ SetApplicationVersion
  \/ SetOrganizationName
  \/ SetOrganizationDomain
  \/ ConstructEngine
  \/ RootContext
  \/ SetContextVersion
  \/ SetContextName
  \/ Connect
  \/ Load
  \/ ExecEnter
  \/ Dispatch
  \/ EngineFinishLoad
  \/ EngineOtherNotification
  \/ ToolkitQuit
  \/ ExecReturn

Spec == Init /\ [][Next]_vars

\* exec() returns once exit() was called on its loop.
FairSpec == Spec /\ WF_vars(ExecReturn)

----------------------------------------------------------------------------
(* Vocabulary of the properties. *)

Returned == Stmt = "return"

\* The lambda ran for the requested document with a null handle.
FailureHandled ==
  \E i \in DOMAIN slotLog : slotLog[i].obj = NULL /\ slotLog[i].url = url

\* The lambda ran for the requested document with a non-null handle.
SuccessHandled ==
  \E i \in DOMAIN slotLog : slotLog[i].obj # NULL /\ slotLog[i].url = url

\* Number of exit(-1) calls the lambda made.
ExitCalls == Cardinality({i \in DOMAIN slotLog : slotLog[i].exit})

FieldValue(f) ==
  CASE f \in Attributes -> f \in attributes
    [] f \in CtxNames -> contextProperties[f]
    [] f = "name" -> applicationName
    [] f = "version" -> applicationVersion
    [] f = "organization" -> organizationName
    [] f = "organizationDomain" -> organizationDomain

IdentitySet ==
  /\ applicationName # Unset
  /\ applicationVersion # Unset
  /\ organizationName # Unset
  /\ organizationDomain # Unset

ContextSet == \A n \in CtxNames : contextProperties[n] # Unset

----------------------------------------------------------------------------
C2_ExitOnlyOnRootFailure ==
  /\ \A i \in DOMAIN slotLog :
       slotLog[i].exit => (slotLog[i].obj = NULL /\ slotLog[i].url = url)
  /\ exitBy = "observer" => (FailureHandled /\ returnCode = -1)
  /\ (Returned /\ exitCode = -1) => FailureHandled
  /\ ~FailureHandled => exitBy # "observer"

\* Two notifications with a null handle for other paths, and one with a
\* non-null handle for the requested path, were handled without an exit.
C2_Witness ==
  /\ Len(slotLog) = 3
  /\ Cardinality({i \in DOMAIN slotLog :
                    slotLog[i].obj = NULL /\ slotLog[i].url # url}) = 2
  /\ SuccessHandled
  /\ loopRunning
  /\ exitBy = "none"

\* C3: every run of the lambda happens inside the event loop, never inside
\* the statement that emitted the notification (engine.load in particular).
C3_ObserverRunsDeferred ==
  \A i \in DOMAIN slotLog : slotLog[i].at = "loop"

\* The notification was emitted inside engine.load and led to exit(-1).
C3_Witness ==
  \E i \in DOMAIN slotLog :
     slotLog[i].from = "load" /\ slotLog[i].at = "loop" /\ slotLog[i].exit

\* C4 (as stated): the statements run in the stated order, the load being
\* requested before the observer is registered: the observer is never
\* registered while no load was requested, and the loop is entered after both.
C4_LoadBeforeObserver ==
  /\ appConstructed => attributes = Attributes
  /\ ContextSet => IdentitySet
  /\ loadCount > 0 => ContextSet
  /\ connected => loadCount > 0
  /\ (loopRunning \/ Returned) => (connected /\ loadCount > 0)

\* C4 (amended): the statements run in the stated order except that the
\* observer is registered before the load is requested: no load is requested
\* while the observer is not registered, and the loop is entered after both.
C4_ObserverBeforeLoad ==
  /\ appConstructed => attributes = Attributes
  /\ IdentitySet => appConstructed
  /\ ContextSet => IdentitySet
  /\ connected => ContextSet
  /\ loadCount > 0 => connected
  /\ (loopRunning \/ Returned) => (connected /\ loadCount > 0)

\* The observer is registered and the load is the next statement.
C4_Witness == connected /\ loadCount = 0 /\ Stmt = "load"

\* C5: whenever the load has been requested, both context properties have
\* been published (each written, each holding a value).
C5_ContextBeforeLoad ==
  loadCount > 0 =>
    \A n \in CtxNames : contextProperties[n] # Unset /\ writes[n] > 0

\* The load has just been requested and the loop is not yet entered.
C5_Witness == loadCount = 1 /\ Stmt = "exec" /\ ~loopRunning /\ ContextSet

\* C6: whenever the application object exists, both high-DPI attributes are set.
C6_AttributesBeforeApp ==
  appConstructed =>
    (AA_EnableHighDpiScaling \in attributes /\ AA_UseHighDpiPixmaps \in attributes)

\* The application object has just been constructed.
C6_Witness == appConstructed /\ Stmt = "name" /\ attributes = Attributes

\* C7: from the load request until main() returns, the context property
\* applicationName is "PuertoCho Assistant Dashboard" and applicationVersion
\* is "1.0.0", each equal to the application object's string, and all four
\* identity strings are set.
C7_ContextMatchesIdentity ==
  (loadCount > 0 /\ ~Returned) =>
    /\ contextProperties["applicationName"] = "PuertoCho Assistant Dashboard"
    /\ contextProperties["applicationVersion"] = "1.0.0"
    /\ contextProperties["applicationName"] = applicationName
    /\ contextProperties["applicationVersion"] = applicationVersion
    /\ organizationName = "PuertoCho"
    /\ organizationDomain = "puertocho.local"

\* The loop runs and the root document was reported instantiated.
C7_Witness ==
  /\ loopRunning
  /\ SuccessHandled
  /\ contextProperties["applicationName"] = "PuertoCho Assistant Dashboard"
  /\ contextProperties["applicationVersion"] = "1.0.0"

\* C8: each piece of startup state is written at most once, all of them have
\* been written once the load is requested, and a piece that has been
\* written keeps its value and its write count in every later step.
C8_StartupStateWrittenOnce ==
  /\ [](\A f \in Fields : writes[f] <= 1)
  /\ [](loadCount > 0 => \A f \in Fields : writes[f] = 1)
  /\ [][\A f \in Fields :
          writes[f] >= 1 =>
            (writes'[f] = writes[f] /\ FieldValue(f)' = FieldValue(f))]_vars

\* main() returned after the lambda ran, every field written exactly once.
C8_Witness ==
  /\ Returned
  /\ slotLog # <<>>
  /\ \A f \in Fields : writes[f] = 1
  /\ attributes = Attributes

\* C9: once the load is requested main() can enter the loop whatever the
\* state of the document; the loop is left only after exit() was called; and
\* when the lambda never ran, main() returned only because the toolkit ended
\* the loop.
C9_LoopDoesNotWaitForLoad ==
  /\ (Stmt = "exec" /\ ~loopRunning) => ENABLED ExecEnter
  /\ (loopRunning /\ slotLog = <<>>) => exitBy # "observer"
  /\ (Returned /\ slotLog = <<>>) =>
       (exitBy = "toolkit" /\ exitCode \in ToolkitCodes)

\* The loop runs while the document is still pending and nothing was delivered.
C9_Witness ==
  loopRunning /\ rootState = "pending" /\ slotLog = <<>> /\ eventQueue = <<>>

\* C10: engine.load is called at most once (exactly once before the loop is
\* entered), the lambda calls exit(-1) at most once, and once the lambda has
\* seen the root document instantiated the loop is never ended by the
\* lambda: main() returns a toolkit code, not -1.
C10_SinglePass ==
  /\ loadCount <= 1
  /\ (loopRunning \/ Returned) => loadCount = 1
  /\ ExitCalls <= 1
  /\ SuccessHandled => (exitBy # "observer" /\ ExitCalls = 0)
  /\ (SuccessHandled /\ Returned) =>
       (exitCode \in ToolkitCodes /\ exitCode # -1)

\* Success was handled, then a null handle for another path, then a clean
\* shutdown returned 0.
C10_Witness ==
  /\ SuccessHandled
  /\ \E i \in DOMAIN slotLog : slotLog[i].obj = NULL
  /\ Returned
  /\ exitCode = 0

====
